---- MODULE Spec2Model ----
(***************************************************************************)
(* Memex search: the temporal event aggregation over the visits and        *)
(* bookmarks stores (mapUrlsToLatestEvents, groupLatestEventsByUrl,        *)
(* lookbackFromEndDate, lookbackBookmarksTime).                            *)
(*                                                                         *)
(* A PageResultsMap (a JS Map of url -> time) is a function whose DOMAIN   *)
(* is its key set.  A store scan yields records in the order of the        *)
(* IndexedDB index it runs on; .reverse() yields them latest first.        *)
(***************************************************************************)
EXTENDS Naturals, Integers, Sequences, FiniteSets, TLC

\* ---------------------------------------------------------------- bounds
\* Timestamps are 0 .. MaxTime; Date.now() is MaxTime (no record is later).
MaxTime == 2
\* At most MaxVisits visit records in the store.
MaxVisits == 2
\* skip + limit <= MaxPage.
MaxPage == 2
\* The loop counter of lookbackBookmarksTime saturates at MaxIters.
MaxIters == 3
\* The stores behaviours are followed to their end on: at most SmallStore
\* visits and SmallStore bookmarks.
SmallStore == 1

\* Page identities, in ascending key order.
PageOrder == <<"a", "b", "c">>
Pages == {PageOrder[i] : i \in 1..Len(PageOrder)}
UrlRank(u) == CHOOSE i \in 1..Len(PageOrder) : PageOrder[i] = u
Times == 0..MaxTime
Now == MaxTime
\* Math.min() of no arguments; Infinity - 1 is Infinity.
Infinity == MaxTime + 1
\* no time / no value
Null == 0 - 1
EmptyMap == [u \in {} |-> 0]

VARIABLES
    visits,          \* db.visits: set of <<time, url>> (primary key [time+url])
    bookmarks,       \* db.bookmarks: set of <<time, url>>, url the primary key
    allowed,         \* filteredUrls.isAllowed: the set of allowed urls
    op,              \* "resolve" (mapUrlsToLatestEvents) or "aggregate" (groupLatestEventsByUrl)
    startDate, endDate, skip, limit,
    bmFlag,          \* params.bookmarks
    urls,            \* the urls argument of mapUrlsToLatestEvents
    pc,              \* where the running call is
    latestVisits, latestBookmarks,   \* the two scan maps
    cursor,          \* records the scans have consumed (one entry per running scan)
    doneFlags,       \* mapUrlsToLatestEvents: doneFlags
    urlsToCheck,     \* mapUrlsToLatestEvents: urlsToCheck
    results,         \* the merged map (latestEvents / results)
    bms, bmsExhausted, upperBound, iters, \* lookbackBookmarksTime loop state
    returned,        \* <<m>> once the call resolved with mapping m, <<>> otherwise
    storeFailed,     \* a store query has failed
    rejected,        \* the call's promise was rejected
    callNo, firstReturned, \* a repeated call with identical arguments
    lastCall         \* <<c>> after a lone call c of attemptAdd, <<>> otherwise

vars == <<visits, bookmarks, allowed, op, startDate, endDate, skip, limit, bmFlag,
          urls, pc, latestVisits, latestBookmarks, cursor, doneFlags, urlsToCheck,
          results, bms, bmsExhausted, upperBound, iters, returned, storeFailed,
          rejected, callNo, firstReturned, lastCall>>

store == <<visits, bookmarks, allowed>>
args == <<op, startDate, endDate, skip, limit, bmFlag, urls>>

\* ------------------------------------------------------------- Map helpers
MapHas(m, u) == u \in DOMAIN m
MapSize(m) == Cardinality(DOMAIN m)
MapSet(m, u, t) == [x \in (DOMAIN m) \cup {u} |-> IF x = u THEN t ELSE m[x]]
\* urlTimeMap.get(url) || 0
MapGetOr0(m, u) == IF u \in DOMAIN m THEN m[u] ELSE 0
MapValues(m) == {m[u] : u \in DOMAIN m}
\* new Map([...m1, ...m2]): later entries overwrite
MapSpread(m1, m2) ==
    [x \in (DOMAIN m1) \cup (DOMAIN m2) |-> IF x \in DOMAIN m2 THEN m2[x] ELSE m1[x]]
\* Math.min(...m.values())
MathMin(S) == IF S = {} THEN Infinity ELSE CHOOSE x \in S : \A y \in S : x <= y

\* ----------------------------------------------------------- store scans
\* Key order of a record <<time, url>>: by time, then by url.
KeyLess(r1, r2) == r1[1] < r2[1] \/ (r1[1] = r2[1] /\ UrlRank(r1[2]) < UrlRank(r2[2]))
Latest(S) == CHOOSE r \in S : \A q \in S : q = r \/ KeyLess(q, r)
RECURSIVE Reverse(_)
\* .reverse(): the records of S, latest first
Reverse(S) == IF S = {} THEN <<>> ELSE LET r == Latest(S) IN <<r>> \o Reverse(S \ {r})
\* .between(lo, hi, true, true) on the time key
Between(S, lo, hi) == {r \in S : lo <= r[1] /\ r[1] <= hi}
\* .where('url').equals(u)
WhereUrl(S, u) == {r \in S : r[2] = u}

\* Dexie's Collection.until(stop).each(f) over recs, from map m: stop is
\* tested before each record; a record read while stop holds is discarded.
RECURSIVE EachSetUntilSize(_, _, _)
EachSetUntilSize(recs, m, n) ==
    IF recs = <<>> \/ MapSize(m) >= n THEN m
    ELSE EachSetUntilSize(Tail(recs), MapSet(m, Head(recs)[2], Head(recs)[1]), n)

\* The first key of a Map in iteration order.  Entries of the maps iterated
\* here have distinct keys and each callback touches only its own key, so
\* the iteration order is immaterial; ascending url is taken.
FirstKey(m) == CHOOSE x \in DOMAIN m : \A y \in DOMAIN m : UrlRank(x) <= UrlRank(y)
MapRest(m) == [x \in (DOMAIN m) \ {FirstKey(m)} |-> m[x]]

\* ------------------------------------------------ lookbackBookmarksTime
\* (the filter without its lower bound)
InBoundsNoStart(t) == t <= endDate

\* time >= startDate && time <= endDate
InBounds(t) == t >= startDate /\ t <= endDate

\* Grab latest page of bookmarks
BookmarksPage(ub) ==
    EachSetUntilSize(Reverse(Between(bookmarks, startDate, ub)), EmptyMap, skip + limit)

\* the first visit of recs (latest first) with visitTime <= endDate, if any
RECURSIVE FirstVisitUpToEnd(_)
FirstVisitUpToEnd(recs) ==
    IF recs = <<>> THEN Null
    ELSE IF Head(recs)[1] <= endDate THEN Head(recs)[1]
    ELSE FirstVisitUpToEnd(Tail(recs))

\* (the visits scanned oldest first: .reverse() left out)
RECURSIVE Forward(_)
Forward(S) ==
    IF S = {} THEN <<>>
    ELSE LET r == CHOOSE x \in S : \A q \in S : q = x \/ KeyLess(x, q)
         IN <<r>> \o Forward(S \ {r})
ReplaceWithOldestVisit(u, t) ==
    IF t > endDate
    THEN LET v == FirstVisitUpToEnd(Forward(WhereUrl(visits, u)))
         IN IF v = Null THEN t ELSE v
    ELSE t

\* if was bookmarked later than endDate filter, replace with latest in-bounds visit
ReplaceWithVisit(u, t) ==
    IF t > endDate
    THEN LET v == FirstVisitUpToEnd(Reverse(WhereUrl(visits, u)))
         IN IF v = Null THEN t ELSE v
    ELSE t

Backfilled(m) == [u \in DOMAIN m |-> ReplaceWithVisit(u, m[u])]

\* results = new Map([...results, ...[...bms].filter(in bounds)])
AdmitBms(res, m) ==
  MapSpread(res, [x \in {u \in DOMAIN m : InBounds(m[u])} |-> m[x]])

\* (the oldest result's time itself, not excluded)
NextUpperBoundSame(res) == MathMin(MapValues(res))

\* upperBound = Math.min(...results.values()) - 1
NextUpperBound(res) ==
    LET m == MathMin(MapValues(res)) IN IF m = Infinity THEN Infinity ELSE m - 1

\* the pages of a fetched page whose visits are scanned: currentTime > endDate
BackfillScans(m) == {u \in DOMAIN m : m[u] > endDate}

\* (the loop condition without the exhaustion flag)
LoopGuardNoExhausted == MapSize(results) < limit

\* while (results.size < limit && !bmsExhausted)
LoopGuard == MapSize(results) < limit /\ ~bmsExhausted

Bump(n) == IF n < MaxIters THEN n + 1 ELSE n

\* --------------------------------------------------- lookbackFromEndDate
\* db.visits.where('[time+url]').between([startDate, MIN_STR], [endDate, MAX_STR], true, true).reverse()
VisitRecs == Reverse(Between(visits, startDate, endDate))
\* db.bookmarks.where('time').between(startDate, endDate, true, true).reverse()
BookmarkRecs == Reverse(Between(bookmarks, startDate, endDate))

isAllowed(u) == u \in allowed

\* (the stop condition off by one)
EnoughUrlsStrict(m) == MapSize(m) > skip + limit

\* .until(() => map.size >= skip + limit)
EnoughUrls(m) == MapSize(m) >= skip + limit

\* (the callback without its has(url) test: a later record overwrites)
RecordVisitOverwrite(m, t, u) == IF isAllowed(u) THEN MapSet(m, u, t) ELSE m

\* the visits callback: only ever record the latest visit for each URL
RecordVisit(m, t, u) == IF ~MapHas(m, u) /\ isAllowed(u) THEN MapSet(m, u, t) ELSE m

\* the bookmarks callback: latestBookmarks.set(url, time)
RecordBookmark(m, t, u) == MapSet(m, u, t)

\* addToMap: existing = results.get(url) || 0; if (existing < time) results.set(url, time)
addToMap(m, t, u) == IF MapGetOr0(m, u) < t THEN MapSet(m, u, t) ELSE m

RECURSIVE ForEachAddToMap(_, _)
ForEachAddToMap(src, acc) ==
    IF DOMAIN src = {} THEN acc
    ELSE ForEachAddToMap(MapRest(src), addToMap(acc, src[FirstKey(src)], FirstKey(src)))

\* latestVisits.forEach(addToMap); latestBookmarks.forEach(addToMap)
MergeLookback(lv, lb) == ForEachAddToMap(lb, ForEachAddToMap(lv, EmptyMap))

\* ------------------------------------------------- mapUrlsToLatestEvents
\* (the rule without its comparison with the existing entry)
attemptAddOkNoExisting(m, skipDateCheck, t, u) ==
    ~(  (~skipDateCheck /\ endDate # Null /\ endDate < t)
     \/ (~skipDateCheck /\ startDate # Null /\ startDate > t))

\* (an equal existing time rejected too: >= for >)
attemptAddOkNoTies(m, skipDateCheck, t, u) ==
    ~(  (MapHas(m, u) /\ m[u] >= t)
     \/ (~skipDateCheck /\ endDate # Null /\ endDate < t)
     \/ (~skipDateCheck /\ startDate # Null /\ startDate > t))

\* attemptAdd(urlTimeMap, skipDateCheck)(time, url): whether the pair is kept
attemptAddOk(m, skipDateCheck, t, u) ==
    ~(  MapGetOr0(m, u) > t
     \/ (~skipDateCheck /\ endDate # Null /\ endDate < t)
     \/ (~skipDateCheck /\ startDate # Null /\ startDate > t))

\* (the pair set whatever the verdict: the early return left out)
attemptAddAlways(m, skipDateCheck, t, u) == MapSet(m, u, t)

\* ... and the map after it
attemptAdd(m, skipDateCheck, t, u) ==
    IF attemptAddOk(m, skipDateCheck, t, u) THEN MapSet(m, u, t) ELSE m

RECURSIVE ForEachAttemptAdd(_, _)
ForEachAttemptAdd(src, acc) ==
    IF DOMAIN src = {} THEN acc
    ELSE ForEachAttemptAdd(MapRest(src),
                           attemptAdd(acc, FALSE, src[FirstKey(src)], FirstKey(src)))

UrlSet(us) == {us[i] : i \in 1..Len(us)}

\* db.bookmarks.where('url').anyOf(urls): in ascending url order
RECURSIVE Ascending(_)
Ascending(S) ==
    IF S = {} THEN <<>>
    ELSE LET r == CHOOSE x \in S : \A y \in S : UrlRank(x[2]) <= UrlRank(y[2])
         IN <<r>> \o Ascending(S \ {r})
BookmarksAnyOf(us) == Ascending({r \in bookmarks : r[2] \in UrlSet(us)})

\* .each(({ time, url }) => attemptAdd(latestBookmarks, bookmarks)(time, url))
RECURSIVE EachAttemptAdd(_, _, _)
EachAttemptAdd(recs, m, skipDateCheck) ==
    IF recs = <<>> THEN m
    ELSE EachAttemptAdd(Tail(recs),
                        attemptAdd(m, skipDateCheck, Head(recs)[1], Head(recs)[2]),
                        skipDateCheck)

\* [...latestBookmarks.keys()]: in insertion order, the order of the scan
RECURSIVE KeysOf(_)
KeysOf(m) == IF DOMAIN m = {} THEN <<>> ELSE <<FirstKey(m)>> \o KeysOf(MapRest(m))

\* (every requested url checked, bookmarked or not)
UrlsToCheckAll(lb) == urls

\* urlsToCheck = bookmarks ? [...latestBookmarks.keys()] : urls
UrlsToCheckOf(lb) == IF bmFlag THEN KeysOf(lb) ELSE urls

\* db.visits.where('url').equals(currUrl).reverse()
UrlVisitRecs(u) == Reverse(WhereUrl(visits, u))

\* query i has come to its end: .until(() => doneFlags[i]), or no record is left
QueryOver(i) == doneFlags[i] \/ cursor[i] >= Len(UrlVisitRecs(urlsToCheck[i]))

\* (Promise.race for Promise.all: some query has come to its end)
AnyQueryOver == urlsToCheck = <<>> \/ \E i \in 1..Len(urlsToCheck) : QueryOver(i)

\* await Promise.all(...): every query has come to its end
AllQueriesOver == \A i \in 1..Len(urlsToCheck) : QueryOver(i)

\* (the bookmarks merged as they were gathered, without the date check)
MergeEventsSkipDateCheck(lv, lb) ==
    LET base == ForEachAttemptAdd(lv, EmptyMap)
    IN [x \in (DOMAIN base) \cup (DOMAIN lb) |->
           IF MapHas(lb, x) /\ MapGetOr0(base, x) <= lb[x] THEN lb[x] ELSE base[x]]

\* latestVisits.forEach(attemptAdd(latestEvents)); latestBookmarks.forEach(attemptAdd(latestEvents))
MergeEvents(lv, lb) == ForEachAttemptAdd(lb, ForEachAttemptAdd(lv, EmptyMap))

\* ---------------------------------------------------------------- inputs
\* The stores: at most MaxVisits visits of the pages vps, and any bookmarks
\* of the pages bps (url is the primary key of bookmarks: one record per url).
VisitSets(vps) == {vs \in SUBSET (Times \X vps) : Cardinality(vs) <= MaxVisits}
BookmarkSets(bps) == {bs \in SUBSET (Times \X bps) : \A r, q \in bs : r[2] = q[2] => r = q}
PageSpecs == {sl \in (0..MaxPage) \X (1..MaxPage) : sl[1] + sl[2] <= MaxPage}
\* The urls arguments: none, one, a url with no record, the same url twice, two.
UrlLists == {<<>>, <<"a">>, <<"b">>, <<"c">>, <<"b", "b">>, <<"a", "b">>}
\* filteredUrls: everything allowed, or b rejected
AllowLists == {Pages, Pages \ {"b"}}

Locals0 ==
    /\ latestVisits = EmptyMap /\ latestBookmarks = EmptyMap /\ results = EmptyMap
    /\ cursor = <<>> /\ doneFlags = <<>> /\ urlsToCheck = <<>>
    /\ bms = EmptyMap /\ bmsExhausted = FALSE /\ upperBound = Now /\ iters = 0

\* the state at the call: the store, and no local yet
AtCall(vps, bps) ==
    /\ visits \in VisitSets(vps)
    /\ bookmarks \in BookmarkSets(bps)
    /\ startDate \in Times /\ endDate \in Times
    /\ pc = "start"
    /\ Locals0
    /\ returned = <<>> /\ storeFailed = FALSE /\ rejected = FALSE
    /\ callNo = 1 /\ firstReturned = <<>>
    /\ lastCall = <<>>

\* mapUrlsToLatestEvents({ endDate, startDate, bookmarks }, urls)
ResolveArgs ==
    /\ op = "resolve"
    /\ bmFlag \in BOOLEAN
    /\ urls \in UrlLists
    /\ skip = 0 /\ limit = 1 /\ allowed = Pages

\* groupLatestEventsByUrl({ startDate, endDate, skip, limit, bookmarks: false }, filteredUrls)
EndDateArgs ==
    /\ op = "aggregate"
    /\ bmFlag = FALSE
    \* only skip + limit is read
    /\ skip = 0 /\ limit \in 1..MaxPage
    /\ allowed \in AllowLists
    /\ urls = <<>>

\* groupLatestEventsByUrl({ startDate, endDate, skip, limit, bookmarks: true }, filteredUrls)
BookmarksArgs ==
    /\ op = "aggregate"
    /\ bmFlag = TRUE
    /\ \E sl \in PageSpecs : skip = sl[1] /\ limit = sl[2]
    /\ allowed = Pages \ {"b"}
    /\ urls = <<>>

\* a is visited, b visited and bookmarked, c has no record
InitResolve == AtCall({"a", "b"}, {"b"}) /\ ResolveArgs
\* a is visited, b visited and bookmarked, c bookmarked
InitEndDate == AtCall({"a", "b"}, {"b", "c"}) /\ EndDateArgs
\* the bookmarks lookback pages through the bookmarks: every page may have
\* one, and a is the page with visits
InitBookmarks == AtCall({"a"}, Pages) /\ BookmarksArgs
InitAggregate == InitEndDate \/ InitBookmarks
Init == InitResolve \/ InitAggregate

ResetLocals ==
    /\ latestVisits' = EmptyMap /\ latestBookmarks' = EmptyMap /\ results' = EmptyMap
    /\ cursor' = <<>> /\ doneFlags' = <<>> /\ urlsToCheck' = <<>>
    /\ bms' = EmptyMap /\ bmsExhausted' = FALSE /\ upperBound' = Now /\ iters' = 0

\* ------------------------------------------------ groupLatestEventsByUrl
\* params.bookmarks ? lookbackBookmarksTime(params) : lookbackFromEndDate(params, filteredUrls)
GroupLatestEventsByUrl ==
    /\ pc = "start" /\ op = "aggregate"
    /\ pc' = IF bmFlag THEN "bmLoop" ELSE "visits"
    /\ cursor' = <<0>>
    /\ UNCHANGED <<store, args, lastCall, storeFailed, bms, latestVisits, latestBookmarks, doneFlags, urlsToCheck,
                   results, bmsExhausted, upperBound, iters, returned, rejected,
                   callNo, firstReturned>>

\* ------------------------------------------- lookbackFromEndDate, by record
VisitsEach ==
    /\ pc = "visits"
    /\ cursor[1] < Len(VisitRecs) /\ ~EnoughUrls(latestVisits)
    /\ LET r == VisitRecs[cursor[1] + 1]
       IN latestVisits' = RecordVisit(latestVisits, r[1], r[2])
    /\ cursor' = <<cursor[1] + 1>>
    /\ UNCHANGED <<store, args, lastCall, storeFailed, bms, pc, latestBookmarks, doneFlags, urlsToCheck, results,
                   bmsExhausted, upperBound, iters, returned, rejected, callNo,
                   firstReturned>>

\* the visits query is over: no record left, or one was read with the stop
\* condition true and is discarded
VisitsOver ==
    /\ pc = "visits"
    /\ (cursor[1] >= Len(VisitRecs) \/ EnoughUrls(latestVisits))
    /\ pc' = "bookmarks"
    /\ cursor' = <<0>>
    /\ UNCHANGED <<store, args, lastCall, storeFailed, bms, latestVisits, latestBookmarks, doneFlags, urlsToCheck,
                   results, bmsExhausted, upperBound, iters, returned, rejected,
                   callNo, firstReturned>>

BookmarksEach ==
    /\ pc = "bookmarks"
    /\ cursor[1] < Len(BookmarkRecs) /\ ~EnoughUrls(latestBookmarks)
    /\ LET r == BookmarkRecs[cursor[1] + 1]
       IN latestBookmarks' = RecordBookmark(latestBookmarks, r[1], r[2])
    /\ cursor' = <<cursor[1] + 1>>
    /\ UNCHANGED <<store, args, lastCall, storeFailed, bms, pc, latestVisits, doneFlags, urlsToCheck, results,
                   bmsExhausted, upperBound, iters, returned, rejected, callNo,
                   firstReturned>>

\* the bookmarks query is over; merge results and return
BookmarksOverMerge ==
    /\ pc = "bookmarks"
    /\ (cursor[1] >= Len(BookmarkRecs) \/ EnoughUrls(latestBookmarks))
    /\ results' = MergeLookback(latestVisits, latestBookmarks)
    /\ returned' = <<results'>>
    /\ pc' = "done"
    /\ UNCHANGED <<store, args, lastCall, storeFailed, bms, latestVisits, latestBookmarks, cursor, doneFlags,
                   urlsToCheck, bmsExhausted, upperBound, iters, rejected, callNo,
                   firstReturned>>

\* ------------------------------------- lookbackBookmarksTime, by iteration
\* the loop is entered: grab latest page of bookmarks
LookbackFetch ==
    /\ pc = "bmLoop"
    /\ LoopGuard
    /\ bms' = BookmarksPage(upperBound)
    /\ bmsExhausted' = (MapSize(bms') < skip + limit)
    /\ pc' = "bmPage"
    /\ UNCHANGED <<store, args, lastCall, storeFailed, latestVisits, latestBookmarks, cursor, doneFlags,
                   urlsToCheck, results, upperBound, iters, returned, rejected, callNo,
                   firstReturned>>

\* replace the late bookmarks by visits, add to the result pool, move upperBound
LookbackAdmit ==
    /\ pc = "bmPage"
    /\ results' = AdmitBms(results, Backfilled(bms))
    /\ upperBound' = NextUpperBound(results')
    /\ bms' = EmptyMap
    /\ iters' = Bump(iters)
    /\ pc' = "bmLoop"
    /\ UNCHANGED <<store, args, lastCall, storeFailed, latestVisits, latestBookmarks, cursor, doneFlags,
                   urlsToCheck, bmsExhausted, returned, rejected, callNo, firstReturned>>

LookbackReturn ==
    /\ pc = "bmLoop"
    /\ ~LoopGuard
    /\ returned' = <<results>>
    /\ pc' = "done"
    /\ UNCHANGED <<store, args, lastCall, storeFailed, bms, latestVisits, latestBookmarks, cursor, doneFlags,
                   urlsToCheck, results, bmsExhausted, upperBound, iters, rejected,
                   callNo, firstReturned>>

\* ------------------------------------------------- mapUrlsToLatestEvents
\* the bookmarks query, then the visit queries are started
ResolveBookmarks ==
    /\ pc = "start" /\ op = "resolve"
    /\ LET lb == EachAttemptAdd(BookmarksAnyOf(urls), EmptyMap, bmFlag)
           check == UrlsToCheckOf(lb)
       IN /\ latestBookmarks' = lb
          /\ urlsToCheck' = check
          /\ doneFlags' = [i \in 1..Len(check) |-> FALSE]
          /\ cursor' = [i \in 1..Len(check) |-> 0]
    /\ pc' = "queries"
    /\ UNCHANGED <<store, args, lastCall, storeFailed, bms, latestVisits, results, bmsExhausted, upperBound, iters,
                   returned, rejected, callNo, firstReturned>>

\* query i hands its next record to the callback
VisitQueryEach(i) ==
    /\ pc = "queries"
    /\ ~QueryOver(i)
    /\ LET r == UrlVisitRecs(urlsToCheck[i])[cursor[i] + 1]
       IN /\ doneFlags' = [doneFlags EXCEPT ![i] = attemptAddOk(latestVisits, FALSE, r[1], r[2])]
          /\ latestVisits' = attemptAdd(latestVisits, FALSE, r[1], r[2])
    /\ cursor' = [cursor EXCEPT ![i] = @ + 1]
    /\ UNCHANGED <<store, args, lastCall, storeFailed, bms, pc, latestBookmarks, urlsToCheck, results, bmsExhausted,
                   upperBound, iters, returned, rejected, callNo, firstReturned>>

ResolveMerge ==
    /\ pc = "queries"
    /\ AllQueriesOver
    /\ results' = MergeEvents(latestVisits, latestBookmarks)
    /\ returned' = <<results'>>
    /\ pc' = "done"
    /\ UNCHANGED <<store, args, lastCall, storeFailed, bms, latestVisits, latestBookmarks, cursor, doneFlags,
                   urlsToCheck, bmsExhausted, upperBound, iters, rejected, callNo,
                   firstReturned>>

\* the same call again, with identical arguments, against the unchanged store
CallAgain ==
    /\ pc = "done" /\ op = "resolve" /\ callNo = 1
    /\ firstReturned' = returned
    /\ callNo' = 2
    /\ returned' = <<>>
    /\ pc' = "start"
    /\ ResetLocals
    /\ UNCHANGED <<store, args, lastCall, storeFailed, rejected>>

\* ------------------------------------------------------- store failure
\* a store query is running or about to be started
Scanning ==
    \/ pc \in {"visits", "bookmarks", "queries", "bmPage"}
    \/ pc = "start" /\ op = "resolve"
    \/ pc = "bmLoop" /\ LoopGuard

\* (the rejection caught, and what was gathered returned)
StoreFailsCaught ==
    /\ Scanning
    /\ storeFailed' = TRUE
    /\ pc' = "done"
    /\ returned' = <<IF op = "resolve" THEN MergeEvents(latestVisits, latestBookmarks) ELSE results>>
    /\ UNCHANGED <<store, args, lastCall, rejected, latestVisits, latestBookmarks, results, cursor,
                   doneFlags, urlsToCheck, bms, bmsExhausted, upperBound, iters, callNo,
                   firstReturned>>

\* The query's promise rejects; nothing catches it, so the awaiting async
\* function rejects (Promise.all rejects with the first rejection).
StoreFails ==
    /\ Scanning
    /\ pc' = "failed"
    /\ storeFailed' = TRUE
    /\ rejected' = TRUE
    /\ returned' = <<>>
    \* what the scans had gathered stays behind, unreturned
    /\ UNCHANGED <<latestVisits, latestBookmarks, results>>
    /\ cursor' = <<>> /\ doneFlags' = <<>> /\ urlsToCheck' = <<>>
    /\ bms' = EmptyMap /\ bmsExhausted' = FALSE /\ upperBound' = Now /\ iters' = 0
    /\ UNCHANGED <<store, args, lastCall, callNo, firstReturned>>

NextEndDate ==
    \/ GroupLatestEventsByUrl
    \/ VisitsEach \/ VisitsOver \/ BookmarksEach \/ BookmarksOverMerge
    \/ StoreFails

NextBookmarks ==
    \/ GroupLatestEventsByUrl
    \/ LookbackFetch \/ LookbackAdmit \/ LookbackReturn
    \/ StoreFails

NextAggregate ==
    \/ GroupLatestEventsByUrl
    \/ VisitsEach \/ VisitsOver \/ BookmarksEach \/ BookmarksOverMerge
    \/ LookbackFetch \/ LookbackAdmit \/ LookbackReturn
    \/ StoreFails

NextResolve ==
    \/ ResolveBookmarks
    \/ \E i \in 1..Len(urlsToCheck) : VisitQueryEach(i)
    \/ ResolveMerge
    \/ CallAgain
    \/ StoreFails

Next ==
    \/ GroupLatestEventsByUrl
    \/ VisitsEach \/ VisitsOver \/ BookmarksEach \/ BookmarksOverMerge
    \/ LookbackFetch \/ LookbackAdmit \/ LookbackReturn
    \/ ResolveBookmarks
    \/ \E i \in 1..Len(urlsToCheck) : VisitQueryEach(i)
    \/ ResolveMerge
    \/ CallAgain
    \/ StoreFails

Spec == Init /\ [][Next]_vars
SpecResolve == InitResolve /\ [][NextResolve]_vars
SpecEndDate == InitEndDate /\ [][NextEndDate]_vars
SpecBookmarks == InitBookmarks /\ [][NextBookmarks]_vars
SpecAggregate == InitAggregate /\ [][NextAggregate]_vars

\* groupLatestEventsByUrl with a limit that is not positive: limit 0 or -1, any
\* skip, either mode; a is visited and b bookmarked
NonPositiveLimitArgs ==
    /\ op = "aggregate"
    /\ bmFlag \in BOOLEAN
    /\ skip \in 0..MaxPage /\ limit \in (0 - 1)..0
    /\ allowed = Pages
    /\ urls = <<>>

InitNonPositiveLimit == AtCall({"a"}, {"b"}) /\ NonPositiveLimitArgs

\* the loop of lookbackBookmarksTime is never entered with such a limit
NextNonPositiveLimit ==
    \/ GroupLatestEventsByUrl
    \/ VisitsEach \/ VisitsOver \/ BookmarksEach \/ BookmarksOverMerge
    \/ LookbackReturn
    \/ StoreFails

SpecNonPositiveLimit == InitNonPositiveLimit /\ [][NextNonPositiveLimit]_vars

\* ------------------------------------------------------ attemptAdd alone
\* attemptAdd(urlTimeMap, skipDateCheck)(time, url), called again and again on
\* one map, held in latestVisits; each window bound is given or left out.
InitAttemptAdd ==
    /\ visits = {} /\ bookmarks = {} /\ allowed = Pages
    /\ op = "attemptAdd"
    /\ startDate \in Times \cup {Null} /\ endDate \in Times \cup {Null}
    /\ skip = 0 /\ limit = 1 /\ bmFlag = FALSE /\ urls = <<>>
    /\ pc = "start"
    /\ Locals0
    /\ returned = <<>> /\ storeFailed = FALSE /\ rejected = FALSE
    /\ callNo = 1 /\ firstReturned = <<>>
    /\ lastCall = <<>>

AttemptAddCall(skipDateCheck, t, u) ==
    /\ op = "attemptAdd"
    /\ latestVisits' = attemptAdd(latestVisits, skipDateCheck, t, u)
    /\ lastCall' = <<[time |-> t, url |-> u, skipDateCheck |-> skipDateCheck,
                      urlTimeMap |-> latestVisits,
                      result |-> attemptAddOk(latestVisits, skipDateCheck, t, u)]>>
    /\ UNCHANGED <<store, args, pc, latestBookmarks, cursor, doneFlags, urlsToCheck,
                   results, bms, bmsExhausted, upperBound, iters, returned,
                   storeFailed, rejected, callNo, firstReturned>>

NextAttemptAdd ==
    \E skipDateCheck \in BOOLEAN, t \in Times, u \in Pages :
        AttemptAddCall(skipDateCheck, t, u)

SpecAttemptAdd == InitAttemptAdd /\ [][NextAttemptAdd]_vars

\* The event loop runs every pending continuation; a store failure and a
\* repeated call are the environment's choice and are left out.
NextNoFailure ==
    \/ GroupLatestEventsByUrl
    \/ VisitsEach \/ VisitsOver \/ BookmarksEach \/ BookmarksOverMerge
    \/ LookbackFetch \/ LookbackAdmit \/ LookbackReturn
    \/ ResolveBookmarks
    \/ \E i \in 1..Len(urlsToCheck) : VisitQueryEach(i)
    \/ ResolveMerge

InitSmallStore ==
    Init /\ Cardinality(visits) <= SmallStore /\ Cardinality(bookmarks) <= SmallStore

FairSpec == InitSmallStore /\ [][NextNoFailure]_vars /\ WF_vars(NextNoFailure)

\* ================================================================ claims
Done == pc = "done"
Result == returned[1]
InvertedWindow == startDate > endDate
Aggregating == op = "aggregate"
Resolving == op = "resolve"
SetMax(S) == CHOOSE x \in S : \A y \in S : y <= x
BookmarkTimes(u) == {r[1] : r \in WhereUrl(bookmarks, u)}
VisitTimes(u) == {r[1] : r \in WhereUrl(visits, u)}

\* C1: for limit >= 1 the loop of lookbackBookmarksTime ends after at most
\* (number of bookmarks / (skip + limit)) + 1 iterations, also when a full
\* page of bookmarks is fetched and none of its entries is admitted.
C1_IterationBound ==
    (Aggregating /\ bmFlag /\ limit >= 1)
        => iters <= (Cardinality(bookmarks) \div (skip + limit)) + 1

\* C2: with startDate > endDate, aggregate in both modes and resolve each
\* return, and what they return is the empty mapping.
C2_InvertedWindowReturnsEmpty ==
    InvertedWindow ~> (Done /\ returned = <<EmptyMap>>)

\* C3: every key of the mapping aggregate returns is allowed by the allow list.
C3_AllowListNeverBypassed ==
    (Aggregating /\ Done) => \A u \in DOMAIN Result : isAllowed(u)

\* C4: every value of the mapping aggregate returns, in either mode, lies in
\* [startDate, endDate] and is the time of a visit or bookmark record of its page.
C4_ValuesInWindowAndRecorded ==
    (Aggregating /\ Done) =>
        \A u \in DOMAIN Result :
            /\ startDate <= Result[u] /\ Result[u] <= endDate
            /\ Result[u] \in VisitTimes(u) \cup BookmarkTimes(u)

\* a bookmark later than endDate was replaced by a visit inside a window that
\* does not start at 0
C4_Witness ==
    /\ Aggregating /\ Done /\ bmFlag /\ startDate > 0
    /\ \E u \in DOMAIN Result :
          /\ Result[u] \in VisitTimes(u)
          /\ \E b \in BookmarkTimes(u) : b > endDate

\* the event times of page u inside the window, over both logs
EventsInWindow(u) ==
    {t \in VisitTimes(u) \cup BookmarkTimes(u) : startDate <= t /\ t <= endDate}

\* C5: resolve with bookmarksOnly = false maps every requested page to its
\* greatest event time inside the window over both logs, and maps no other page.
C5_ResolveLatestInWindow ==
    (Resolving /\ Done /\ ~bmFlag) =>
        /\ DOMAIN Result = {u \in UrlSet(urls) : EventsInWindow(u) # {}}
        /\ \A u \in DOMAIN Result : Result[u] = SetMax(EventsInWindow(u))

\* b is requested and mapped to its visit, later than its bookmark inside the
\* window; a is not requested and has an event inside the window
C5_Witness ==
    /\ Resolving /\ Done /\ ~bmFlag
    /\ "b" \in DOMAIN Result
    /\ Result["b"] \in VisitTimes("b")
    /\ \E k \in BookmarkTimes("b") : startDate <= k /\ k < Result["b"]
    /\ "a" \notin UrlSet(urls) /\ EventsInWindow("a") # {}

\* C6: in the mapping lookbackBookmarksTime returns, a page bookmarked at or
\* before endDate has its bookmark time, a page bookmarked after endDate has
\* its greatest visit time <= endDate; a page bookmarked after endDate with
\* no visit in the window is not in the mapping.
C6_BookmarkOrLatestVisit ==
    (Aggregating /\ bmFlag /\ Done) =>
        /\ \A u \in DOMAIN Result :
              \E b \in BookmarkTimes(u) :
                  IF b <= endDate THEN Result[u] = b
                  ELSE /\ \E v \in VisitTimes(u) : v <= endDate
                       /\ Result[u] = SetMax({v \in VisitTimes(u) : v <= endDate})
        /\ \A u \in Pages :
              (/\ \E b \in BookmarkTimes(u) : b > endDate
               /\ \A v \in VisitTimes(u) : ~(startDate <= v /\ v <= endDate))
                  => u \notin DOMAIN Result

\* a page bookmarked after endDate got the later of its two visits up to
\* endDate, and another such page with no visit was left out
C6_Witness ==
    /\ Aggregating /\ bmFlag /\ Done
    /\ \E u \in DOMAIN Result :
          /\ \E b \in BookmarkTimes(u) : b > endDate
          /\ \E v \in VisitTimes(u) : v < Result[u]
    /\ \E u \in Pages \ DOMAIN Result : \E b \in BookmarkTimes(u) : b > endDate

\* C7: at every point of the visits scan and of the bookmarks scan of
\* lookbackFromEndDate the scan's map holds at most skip + limit pages.
C7_ScanMapsBounded ==
    (Aggregating /\ ~bmFlag) =>
        /\ MapSize(latestVisits) <= skip + limit
        /\ MapSize(latestBookmarks) <= skip + limit

\* both scans stopped with a record still unread
C7_Witness ==
    /\ Aggregating /\ ~bmFlag /\ pc = "bookmarks"
    /\ EnoughUrls(latestBookmarks) /\ cursor[1] < Len(BookmarkRecs)
    /\ \E r \in Between(visits, startDate, endDate) :
          isAllowed(r[2]) /\ ~MapHas(latestVisits, r[2])

\* C8: the mapping aggregate returns has at most skip + limit entries.
C8_ResultSizeBounded ==
    (Aggregating /\ Done) => MapSize(Result) <= skip + limit

\* C9: when a store scan fails, the call is rejected and returns no mapping,
\* whatever the scans had gathered.
C9_FailureReturnsNothing ==
    storeFailed => (rejected /\ ~Done /\ returned = <<>>)

\* a visit query of resolve failed after another had admitted a visit
C9_Witness ==
    /\ storeFailed /\ rejected /\ Resolving
    /\ latestVisits # EmptyMap
    /\ returned = <<>>

\* C10: the second of two resolve calls with identical arguments on the
\* unchanged store returns the mapping the first returned, whatever the
\* order in which the visit queries took their steps.
C10_ResolveIdempotent ==
    (Resolving /\ callNo = 2 /\ Done) => returned = firstReturned

\* the same page requested twice, both calls returned it
C10_Witness ==
    /\ Resolving /\ callNo = 2 /\ Done
    /\ urls = <<"b", "b">>
    /\ "b" \in DOMAIN Result
    /\ Cardinality(VisitTimes("b")) = 2

\* C11: a call of aggregate with limit <= 0 is rejected before any store scan
\* begins: no visits or bookmarks scan is started, and the outcome is a
\* rejection, never a mapping.
C11_NonPositiveLimitRejected ==
    (Aggregating /\ limit <= 0) =>
        /\ pc \notin {"visits", "bookmarks", "bmPage"}
        /\ returned = <<>>
        /\ (pc # "start" => rejected)

\* an iteration of lookbackBookmarksTime ends: backfill, admit, advance
IterationEnds == pc = "bmPage" /\ pc' = "bmLoop"

\* C12: whenever results is non-empty at the end of an iteration of
\* lookbackBookmarksTime, the upperBound the iteration sets is strictly smaller
\* than the one it started with, also when its fetch returned no entries.
C12_UpperBoundStrictlyDecreases ==
    [][(IterationEnds /\ results' # EmptyMap) => upperBound' < upperBound]_vars

\* C12, amended: whenever results is non-empty at the end of an iteration, the
\* upperBound the iteration sets is not greater than the one it started with,
\* and is strictly smaller when the iteration's fetch returned an entry.
C12_UpperBoundDecreases ==
    [][(IterationEnds /\ results' # EmptyMap) =>
          /\ upperBound' <= upperBound
          /\ bms # EmptyMap => upperBound' < upperBound]_vars

\* two iterations have each admitted a page, and upperBound is below both
C12_Witness ==
    /\ Aggregating /\ bmFlag /\ pc = "bmLoop"
    /\ iters = 2 /\ MapSize(results) = 2
    /\ \A u \in DOMAIN results : upperBound < results[u]
    /\ Cardinality(bookmarks) = 3

\* C13: with no bookmark in the store, lookbackBookmarksTime with limit >= 1
\* goes through its loop exactly once, scans no page's visits and returns the
\* empty mapping; with no record in the store at all lookbackFromEndDate
\* returns the empty mapping too.
C13_EmptyBookmarkLog ==
    /\ (Aggregating /\ bmFlag /\ limit >= 1 /\ bookmarks = {}) =>
          /\ iters <= 1
          /\ pc = "bmPage" => BackfillScans(bms) = {}
          /\ Done => (iters = 1 /\ returned = <<EmptyMap>>)
    /\ (Aggregating /\ ~bmFlag /\ bookmarks = {} /\ visits = {} /\ Done) =>
          returned = <<EmptyMap>>

\* the bookmarks lookback has returned from a store with visits and no bookmark
C13_Witness ==
    /\ Aggregating /\ bmFlag /\ Done
    /\ bookmarks = {} /\ visits # {}
    /\ iters = 1 /\ bmsExhausted
    /\ returned = <<EmptyMap>>

\* time falls within [startDate, endDate]; a bound left out does not bound
InWindow(t) ==
    /\ startDate # Null => startDate <= t
    /\ endDate # Null => t <= endDate

\* C14: attemptAdd(map, time, pageId, skipWindowCheck) sets map[pageId] to time
\* and returns true iff no entry with a greater or equal time is recorded for
\* the page and (skipWindowCheck or time is within the window); otherwise it
\* leaves the map as it is and returns false.  Offering the recorded time
\* again returns false.
C14_AttemptAddRule ==
    (op = "attemptAdd" /\ lastCall # <<>>) =>
        LET c == lastCall[1]
            admit == /\ ~(MapHas(c.urlTimeMap, c.url) /\ c.urlTimeMap[c.url] >= c.time)
                     /\ (c.skipDateCheck \/ InWindow(c.time))
        IN IF admit
           THEN latestVisits = MapSet(c.urlTimeMap, c.url, c.time) /\ c.result = TRUE
           ELSE latestVisits = c.urlTimeMap /\ c.result = FALSE

\* C14, amended: attemptAdd sets map[pageId] to time (a time >= 0) and returns
\* true iff no entry with a strictly greater time is recorded for the page and
\* (skipWindowCheck or time is within the window); otherwise it leaves the
\* map as it is and returns false.  Offering the recorded time again returns
\* true and leaves the recorded time as it is.
C14_AttemptAddRuleStrict ==
    (op = "attemptAdd" /\ lastCall # <<>>) =>
        LET c == lastCall[1]
            admit == /\ ~(MapHas(c.urlTimeMap, c.url) /\ c.urlTimeMap[c.url] > c.time)
                     /\ (c.skipDateCheck \/ InWindow(c.time))
        IN IF admit
           THEN latestVisits = MapSet(c.urlTimeMap, c.url, c.time) /\ c.result = TRUE
           ELSE latestVisits = c.urlTimeMap /\ c.result = FALSE

\* the recorded time of a page was offered again, inside the window, and
\* attemptAdd returned true
C14_Witness ==
    /\ op = "attemptAdd" /\ lastCall # <<>>
    /\ LET c == lastCall[1]
       IN /\ MapHas(c.urlTimeMap, c.url) /\ c.urlTimeMap[c.url] = c.time
          /\ c.time > 0
          /\ ~c.skipDateCheck /\ startDate # Null /\ endDate # Null
          /\ c.result = TRUE /\ latestVisits = c.urlTimeMap

\* C15: over any sequence of attemptAdd calls on one map, the time stored for a
\* page never decreases and a key once present is never removed; a call
\* raises the stored time of its page or leaves it, and leaves the entries of
\* the other pages untouched.
C15_MonotonicAdmission ==
    [][op = "attemptAdd" =>
          /\ \A u \in DOMAIN latestVisits :
                MapHas(latestVisits', u) /\ latestVisits'[u] >= latestVisits[u]
          /\ \A u \in Pages \ {lastCall'[1].url} :
                /\ MapHas(latestVisits', u) <=> MapHas(latestVisits, u)
                /\ MapHas(latestVisits, u) => latestVisits'[u] = latestVisits[u]]_vars

\* a call raised the time of a page in a map holding another page, and a lower
\* time had been recorded for it before
C15_Witness ==
    /\ op = "attemptAdd" /\ lastCall # <<>>
    /\ LET c == lastCall[1]
       IN /\ MapHas(c.urlTimeMap, c.url)
          /\ latestVisits[c.url] > c.urlTimeMap[c.url]
          /\ c.urlTimeMap[c.url] > 0
          /\ \E u \in DOMAIN latestVisits : u # c.url

\* C16: the mapping lookbackFromEndDate returns has as keys exactly the keys of
\* the visits scan's map and of the bookmarks scan's map, and as value of each
\* page the greater of its times in the two maps (its one time when it is in
\* one map only), for every time in the window, time = startDate = 0 included.
C16_MergeIsUnionOfMax ==
    (Aggregating /\ ~bmFlag /\ Done) =>
        /\ DOMAIN Result = (DOMAIN latestVisits) \cup (DOMAIN latestBookmarks)
        /\ \A u \in DOMAIN Result :
              Result[u] = SetMax(  {latestVisits[x] : x \in {u} \cap DOMAIN latestVisits}
                                \cup {latestBookmarks[x] : x \in {u} \cap DOMAIN latestBookmarks})

\* the requested pages that have a bookmark record
RequestedBookmarked == {u \in UrlSet(urls) : BookmarkTimes(u) # {}}

\* C17: in resolve with bookmarksOnly = true, visit scans are started only for
\* requested pages that have a bookmark record, and every key of the returned
\* mapping is such a page; a requested page with visits inside the window and
\* no bookmark is not in the result.
C17_BookmarksOnlyRestricts ==
    (Resolving /\ bmFlag) =>
        /\ UrlSet(urlsToCheck) \subseteq RequestedBookmarked
        /\ DOMAIN latestVisits \subseteq RequestedBookmarked
        /\ Done => DOMAIN Result \subseteq RequestedBookmarked

\* a and b were requested; a, visited inside the window and not bookmarked, was
\* left out, and b, bookmarked, was returned
C17_Witness ==
    /\ Resolving /\ bmFlag /\ Done
    /\ urls = <<"a", "b">>
    /\ \E t \in VisitTimes("a") : startDate <= t /\ t <= endDate
    /\ BookmarkTimes("a") = {}
    /\ DOMAIN Result = {"b"}

\* page u qualifies for the bookmarks lookback: bookmarked inside the window,
\* or bookmarked after endDate and visited inside the window
Qualifies(u) ==
    \/ \E b \in BookmarkTimes(u) : startDate <= b /\ b <= endDate
    \/ /\ \E b \in BookmarkTimes(u) : b > endDate
       /\ \E v \in VisitTimes(u) : startDate <= v /\ v <= endDate

\* C18: when lookbackBookmarksTime returns fewer than limit entries, every
\* qualifying bookmarked page is a key of the returned mapping: advancing
\* upperBound to min(results) - 1 skips no bookmark not yet fetched.
C18_LookbackComplete ==
    (Aggregating /\ bmFlag /\ Done /\ MapSize(Result) < limit) =>
        \A u \in Pages : Qualifies(u) => u \in DOMAIN Result

\* every page is allowed, and the event times are positive and distinct
DistinctPositiveTimes ==
    /\ allowed = Pages
    /\ \A r \in visits \cup bookmarks : r[1] > 0
    /\ \A r, q \in visits : r[1] = q[1] => r = q
    /\ \A r, q \in bookmarks : r[1] = q[1] => r = q
    /\ \A r \in visits, q \in bookmarks : r[1] # q[1]

\* the latest event time of page u inside the window, over both logs
LatestInWindow(u) == SetMax(EventsInWindow(u))

\* the skip + limit pages with the greatest latest event time inside the window
TopPages ==
    {u \in Pages :
        /\ EventsInWindow(u) # {}
        /\ Cardinality({w \in Pages : /\ EventsInWindow(w) # {}
                                       /\ LatestInWindow(w) > LatestInWindow(u)})
              < skip + limit}

C20_BookmarksOnlyValuesInWindow ==
    (Resolving /\ bmFlag /\ Done) =>
        /\ \A u \in DOMAIN Result : startDate <= Result[u] /\ Result[u] <= endDate
        /\ \A u \in RequestedBookmarked :
              EventsInWindow(u) = {} => u \notin DOMAIN Result

\* b, requested, was bookmarked after endDate and visited only outside the
\* window: phase 1 admitted its bookmark, and the result leaves b out
C20_Witness ==
    /\ Resolving /\ bmFlag /\ Done
    /\ "b" \in UrlSet(urls)
    /\ MapHas(latestBookmarks, "b") /\ latestBookmarks["b"] > endDate
    /\ VisitTimes("b") # {} /\ EventsInWindow("b") = {}
    /\ startDate <= endDate
    /\ "b" \notin DOMAIN Result

====
